---------------------------- MODULE Spec2Model ----------------------------
(***************************************************************************)
(* Post-processing stages of src/postprocessing.py: the five eager stages  *)
(* (MulticlassLabeler, Resizer, CategoryMapper, MaskDilator, DenseCRF),    *)
(* their generator-based *Stream variants, the raw-image aligner           *)
(* get_original_images, and label_multiclass_image.                        *)
(*                                                                         *)
(* Spec      : one stage, run eagerly and as a stream on the same inputs.  *)
(* SpecLabel : label_multiclass_image on small integer masks.              *)
(***************************************************************************)
EXTENDS Integers, Sequences, FiniteSets

\* ------------------------------------------------------------------ bounds
MaxImages == 3
MaxSizes == 2
MaxBatches == 2
MaxBatchSize == 2
MaxSteps == 2
MaxExtraNext == 1
MaxPixels == 6
MaxClass == 2

VARIABLES
    stage,            \* which stage pair is exercised
    images,           \* first input: sequence of [id, ok]
    target_sizes,     \* Resizer's second input
    raw_images_generator, \* DenseCRF's second input: [batch_gen, steps]
    e_pc,             \* eager transform(): "idle" | "returned" | "raised"
    e_ret,            \* dict returned by the eager transform(), {} if none
    e_log,            \* what the eager call pulled from its inputs
    s_pc,             \* stream generator: "idle" | "created" | "suspended" | "done" | "raised"
    s_ret,            \* name under which transform() returned the generator
    s_delivered,      \* elements the consumer has received, in order
    s_requested,      \* next() calls made by the consumer
    s_computed,       \* per-item computations started by the generator
    s_images_pos,     \* items pulled from images by the generator
    s_second_pos,     \* items pulled from target_sizes by the generator
    s_original_images,  \* DenseCRFStream.get_original_images generator object
    mask,             \* input of label_multiclass_image
    l_pc,             \* "start" | "done"
    labeled_image     \* result of label_multiclass_image

vars == <<stage, images, target_sizes, raw_images_generator, e_pc, e_ret, e_log,
          s_pc, s_ret, s_delivered, s_requested, s_computed, s_images_pos,
          s_second_pos, s_original_images, mask, l_pc, labeled_image>>

inputVars == <<stage, images, target_sizes, raw_images_generator>>
eagerVars == <<e_pc, e_ret, e_log>>
streamVars == <<s_pc, s_ret, s_delivered, s_requested, s_computed, s_images_pos,
                s_second_pos, s_original_images>>
labelVars == <<mask, l_pc, labeled_image>>

Min(a, b) == IF a <= b THEN a ELSE b

\* ------------------------------------------------------------ input values
Stages == {"MulticlassLabeler", "Resizer", "CategoryMapper", "MaskDilator", "DenseCRF"}

\* An element of `images`: id is its position, ok says whether the per-item
\* computation succeeds on it (a malformed array makes the library call raise).
\* At most one element is malformed: a stage never runs past the first failure.
Images(n, bad) == [i \in 1..n |-> [id |-> i, ok |-> i # bad]]

Sizes(n) == [j \in 1..n |-> <<"size", j, 0>>]

\* A batch array of n raw images, and the label array that accompanies it.
Tensor(tag, b, n) == [type |-> "tensor", rows |-> [i \in 1..n |-> <<tag, b, i>>]]

\* A batch item: a bare array, a list [X, y] or a tuple (X, y).
BatchItem(kind, b, n) ==
    IF kind = "tensor" THEN Tensor("X", b, n)
    ELSE [type |-> kind, items |-> <<Tensor("X", b, n), Tensor("y", b, n)>>]

BatchKinds == {"tensor", "list", "tuple"}

BatchShapes == BatchKinds \X (0..MaxBatchSize)

Batches(n, sh) == [b \in 1..n |-> BatchItem(sh[b][1], b - 1, sh[b][2])]

NoGenerator == [pc |-> "none", pulled |-> 0, requests |-> 0, batch_id |-> -1,
                X |-> <<>>, i |-> 0, yielded |-> <<>>]

NoLog == [images |-> 0, second |-> 0, aligner |-> "none", batches |-> 0, requests |-> 0,
          originals |-> <<>>, computed |-> 0]

\* ------------------------------------------------------ per-item functions
\* The library calls are kept symbolic: the result records which function was
\* applied to which image with which second argument.
NoArg == <<"none", 0, 0>>

Fails(image) == ~image.ok

labeled(image) == [op |-> "label_multiclass_image", image |-> image.id, arg |-> NoArg]

resized(image, target_size) == [op |-> "resize", image |-> image.id, arg |-> target_size]

categorized(image) == [op |-> "categorize_image", image |-> image.id, arg |-> NoArg]

dilated(image) == [op |-> "dilate_image", image |-> image.id, arg |-> <<"selem_size", 0, 0>>]

dense_crf(img, output_probs) == [op |-> "dense_crf", image |-> output_probs.id, arg |-> img]

\* X.numpy(): only an array has it; a list or a tuple raises AttributeError.
HasNumpy(X) == X.type = "tensor"

\* ------------------------------------------------------------ eager stages
Result(status, value, nimages, nsecond, ncomputed) ==
    [status |-> status, value |-> value, images |-> nimages, second |-> nsecond,
     computed |-> ncomputed]

RECURSIVE MulticlassLabeler_loop(_, _, _)
MulticlassLabeler_loop(imgs, i, labeled_images) ==
    IF i > Len(imgs) THEN Result("returned", labeled_images, Len(imgs), 0, i - 1)
    ELSE IF Fails(imgs[i]) THEN Result("raised", labeled_images, i, 0, i)
    ELSE MulticlassLabeler_loop(imgs, i + 1, Append(labeled_images, labeled(imgs[i])))

RECURSIVE CategoryMapper_loop(_, _, _)
CategoryMapper_loop(imgs, i, categorized_images) ==
    IF i > Len(imgs) THEN Result("returned", categorized_images, Len(imgs), 0, i - 1)
    ELSE IF Fails(imgs[i]) THEN Result("raised", categorized_images, i, 0, i)
    ELSE CategoryMapper_loop(imgs, i + 1, Append(categorized_images, categorized(imgs[i])))

RECURSIVE MaskDilator_loop(_, _, _)
MaskDilator_loop(imgs, i, dilated_images) ==
    IF i > Len(imgs) THEN Result("returned", dilated_images, Len(imgs), 0, i - 1)
    ELSE IF Fails(imgs[i]) THEN Result("raised", dilated_images, i, 0, i)
    ELSE MaskDilator_loop(imgs, i + 1, Append(dilated_images, dilated(imgs[i])))

\* Variant: a zip that raises when one input outlasts the other.
RECURSIVE Resizer_loop_strict(_, _, _, _)
Resizer_loop_strict(imgs, sizes, n, resized_images) ==
    IF n >= Len(imgs) /\ n >= Len(sizes) THEN Result("returned", resized_images, n, n, n)
    ELSE IF n >= Len(imgs) \/ n >= Len(sizes) THEN Result("raised", resized_images, n, n, n)
    ELSE IF Fails(imgs[n + 1]) THEN Result("raised", resized_images, n + 1, n + 1, n + 1)
    ELSE Resizer_loop_strict(imgs, sizes, n + 1,
                             Append(resized_images, resized(imgs[n + 1], sizes[n + 1])))

\* zip(images, target_sizes): each round pulls an image, then a size, and ends
\* at the first input that is exhausted. n rounds are complete.
RECURSIVE Resizer_loop(_, _, _, _)
Resizer_loop(imgs, sizes, n, resized_images) ==
    IF n >= Len(imgs) THEN Result("returned", resized_images, Len(imgs), n, n)
    ELSE IF n >= Len(sizes) THEN Result("returned", resized_images, n + 1, Len(sizes), n)
    ELSE IF Fails(imgs[n + 1]) THEN Result("raised", resized_images, n + 1, n + 1, n + 1)
    ELSE Resizer_loop(imgs, sizes, n + 1,
                      Append(resized_images, resized(imgs[n + 1], sizes[n + 1])))

\* Variant: the second element of a list is taken.
DenseCRF_select_second(data) == IF data.type = "list" THEN data.items[2] ELSE data

\* if isinstance(data, list): X = data[0]  else: X = data
DenseCRF_select(data) == IF data.type = "list" THEN data.items[1] ELSE data

\* Variant: the loop ends one batch later.
DenseCRF_break_late(batch_id, steps) == batch_id = steps + 1

\* if batch_id == steps: break
DenseCRF_break(batch_id, steps) == batch_id = steps

\* get_original_images: `pulled` batches have been taken from batch_gen so far.
RECURSIVE DenseCRF_get_original_images(_, _, _)
DenseCRF_get_original_images(datagen, pulled, original_images) ==
    IF pulled = Len(datagen.batch_gen)
    THEN [status |-> "returned", value |-> original_images,
          batches |-> pulled, requests |-> pulled + 1]
    ELSE LET batch_id == pulled
             X == DenseCRF_select(datagen.batch_gen[pulled + 1])
         IN  IF ~HasNumpy(X)
             THEN [status |-> "raised", value |-> original_images,
                   batches |-> pulled + 1, requests |-> pulled + 1]
             ELSE IF DenseCRF_break(batch_id, datagen.steps)
             THEN [status |-> "returned", value |-> original_images \o X.rows,
                   batches |-> pulled + 1, requests |-> pulled + 1]
             ELSE DenseCRF_get_original_images(datagen, pulled + 1,
                                               original_images \o X.rows)

\* Variant: every probability map is paired with the first raw image.
DenseCRF_zip_first(imgs, orgs, n) == [image |-> imgs[n + 1], org_image |-> orgs[1]]

\* The pair zip(images, original_images) hands out in round n + 1.
DenseCRF_zip(imgs, orgs, n) == [image |-> imgs[n + 1], org_image |-> orgs[n + 1]]

\* for image, org_image in zip(images, original_images): ...
RECURSIVE DenseCRF_loop(_, _, _, _)
DenseCRF_loop(imgs, orgs, n, crf_images) ==
    IF n >= Len(imgs) THEN Result("returned", crf_images, Len(imgs), n, n)
    ELSE IF n >= Len(orgs) THEN Result("returned", crf_images, n + 1, Len(orgs), n)
    ELSE LET z == DenseCRF_zip(imgs, orgs, n)
         IN  IF Fails(z.image) THEN Result("raised", crf_images, n + 1, n + 1, n + 1)
             ELSE DenseCRF_loop(imgs, orgs, n + 1,
                                Append(crf_images, dense_crf(z.org_image, z.image)))

\* Variant: the results computed before a failure are returned.
Return_partial(name, r) == {<<name, r.value>>}

\* return {name: value}: the dict exists only if the call returns.
Return(name, r) == IF r.status = "returned" THEN {<<name, r.value>>} ELSE {}

Log(r, g) == [images |-> r.images, second |-> r.second, aligner |-> g.status,
              batches |-> g.batches,
              requests |-> g.requests, originals |-> g.value, computed |-> r.computed]

NoAligner == [status |-> "none", value |-> <<>>, batches |-> 0, requests |-> 0]

NoDatagen == [batch_gen |-> <<>>, steps |-> 0]

\* The arguments of the call, kept for the stream stage that is run on the
\* same inputs afterwards.
Call(imgs, sizes, datagen) ==
    /\ images' = imgs
    /\ target_sizes' = sizes
    /\ raw_images_generator' = datagen
    /\ UNCHANGED stage

Finish(name, r, g) ==
    /\ e_pc' = r.status
    /\ e_ret' = Return(name, r)
    /\ e_log' = Log(r, g)
    /\ UNCHANGED <<streamVars, labelVars>>

MulticlassLabeler_transform ==
    /\ stage = "MulticlassLabeler" /\ e_pc = "idle"
    /\ \E n \in 0..MaxImages : \E bad \in 0..n :
           LET imgs == Images(n, bad)
           IN  /\ Call(imgs, <<>>, NoDatagen)
               /\ Finish("labeled_images", MulticlassLabeler_loop(imgs, 1, <<>>), NoAligner)

Resizer_transform ==
    /\ stage = "Resizer" /\ e_pc = "idle"
    /\ \E n \in 0..MaxImages : \E bad \in 0..n : \E m \in 0..MaxSizes :
           LET imgs == Images(n, bad)
               sizes == Sizes(m)
           IN  /\ Call(imgs, sizes, NoDatagen)
               /\ Finish("resized_images", Resizer_loop(imgs, sizes, 0, <<>>), NoAligner)

CategoryMapper_transform ==
    /\ stage = "CategoryMapper" /\ e_pc = "idle"
    /\ \E n \in 0..MaxImages : \E bad \in 0..n :
           LET imgs == Images(n, bad)
           IN  /\ Call(imgs, <<>>, NoDatagen)
               /\ Finish("categorized_images", CategoryMapper_loop(imgs, 1, <<>>), NoAligner)

MaskDilator_transform ==
    /\ stage = "MaskDilator" /\ e_pc = "idle"
    /\ \E n \in 0..MaxImages : \E bad \in 0..n :
           LET imgs == Images(n, bad)
           IN  /\ Call(imgs, <<>>, NoDatagen)
               /\ Finish("categorized_images", MaskDilator_loop(imgs, 1, <<>>), NoAligner)

DenseCRF_transform ==
    /\ stage = "DenseCRF" /\ e_pc = "idle"
    /\ \E n \in 0..MaxImages : \E bad \in 0..n :
       \E nb \in 0..MaxBatches : \E sh \in [1..nb -> BatchShapes] : \E st \in 0..MaxSteps :
           LET imgs == Images(n, bad)
               datagen == [batch_gen |-> Batches(nb, sh), steps |-> st]
               g == DenseCRF_get_original_images(datagen, 0, <<>>)
           IN  /\ Call(imgs, <<>>, datagen)
               /\ IF g.status = "raised"
                  THEN Finish("crf_images", Result("raised", <<>>, 0, 0, 0), g)
                  ELSE Finish("crf_images", DenseCRF_loop(imgs, g.value, 0, <<>>), g)

\* ----------------------------------------------------------- stream stages
\* Variant: transform() already computes the first element.
CreateGenerator_primed(name) ==
    /\ e_pc # "idle"
    /\ s_pc = "idle"
    /\ s_pc' = "created"
    /\ s_ret' = {name}
    /\ s_images_pos' = Min(1, Len(images))
    /\ s_computed' = Min(1, Len(images))
    /\ UNCHANGED <<s_delivered, s_requested, s_second_pos, s_original_images>>
    /\ UNCHANGED <<inputVars, eagerVars, labelVars>>

\* transform() of a *Stream stage calls the generator function _transform,
\* which only creates the generator object: no line of its body runs.  The
\* stream stage is a separate instance, exercised after the eager one.
CreateGenerator(name) ==
    /\ e_pc # "idle"
    /\ s_pc = "idle"
    /\ s_pc' = "created"
    /\ s_ret' = {name}
    /\ UNCHANGED <<s_delivered, s_requested, s_computed, s_images_pos, s_second_pos,
                   s_original_images>>
    /\ UNCHANGED <<inputVars, eagerVars, labelVars>>

Running == s_pc \in {"created", "suspended"}

\* The three ways one next() on the generator can end.
StreamYield(x) ==
    /\ s_pc' = "suspended"
    /\ s_delivered' = Append(s_delivered, x)
    /\ s_computed' = s_computed + 1

StreamRaise(ncomputed) ==
    /\ s_pc' = "raised"
    /\ s_computed' = s_computed + ncomputed
    /\ UNCHANGED s_delivered

StreamStop ==
    /\ s_pc' = "done"
    /\ UNCHANGED <<s_delivered, s_computed>>

MulticlassLabelerStream_transform ==
    stage = "MulticlassLabeler" /\ CreateGenerator("labeled_images")

MulticlassLabelerStream_next ==
    /\ stage = "MulticlassLabeler" /\ Running
    /\ s_requested' = s_requested + 1
    /\ IF s_images_pos = Len(images)
       THEN StreamStop /\ UNCHANGED s_images_pos
       ELSE LET image == images[s_images_pos + 1]
            IN  /\ s_images_pos' = s_images_pos + 1
                /\ IF Fails(image) THEN StreamRaise(1) ELSE StreamYield(labeled(image))
    /\ UNCHANGED <<s_ret, s_second_pos, s_original_images>>
    /\ UNCHANGED <<inputVars, eagerVars, labelVars>>

CategoryMapperStream_transform ==
    stage = "CategoryMapper" /\ CreateGenerator("categorized_images")

CategoryMapperStream_next ==
    /\ stage = "CategoryMapper" /\ Running
    /\ s_requested' = s_requested + 1
    /\ IF s_images_pos = Len(images)
       THEN StreamStop /\ UNCHANGED s_images_pos
       ELSE LET image == images[s_images_pos + 1]
            IN  /\ s_images_pos' = s_images_pos + 1
                /\ IF Fails(image) THEN StreamRaise(1) ELSE StreamYield(categorized(image))
    /\ UNCHANGED <<s_ret, s_second_pos, s_original_images>>
    /\ UNCHANGED <<inputVars, eagerVars, labelVars>>

MaskDilatorStream_transform ==
    stage = "MaskDilator" /\ CreateGenerator("categorized_images")

MaskDilatorStream_next ==
    /\ stage = "MaskDilator" /\ Running
    /\ s_requested' = s_requested + 1
    /\ IF s_images_pos = Len(images)
       THEN StreamStop /\ UNCHANGED s_images_pos
       ELSE LET image == images[s_images_pos + 1]
            IN  /\ s_images_pos' = s_images_pos + 1
                /\ IF Fails(image) THEN StreamRaise(1) ELSE StreamYield(dilated(image))
    /\ UNCHANGED <<s_ret, s_second_pos, s_original_images>>
    /\ UNCHANGED <<inputVars, eagerVars, labelVars>>

ResizerStream_transform ==
    stage = "Resizer" /\ CreateGenerator("resized_images")

\* zip pulls from images first and from target_sizes second.
ResizerStream_next ==
    /\ stage = "Resizer" /\ Running
    /\ s_requested' = s_requested + 1
    /\ IF s_images_pos = Len(images)
       THEN StreamStop /\ UNCHANGED <<s_images_pos, s_second_pos>>
       ELSE /\ s_images_pos' = s_images_pos + 1
            /\ IF s_second_pos = Len(target_sizes)
               THEN StreamStop /\ UNCHANGED s_second_pos
               ELSE LET image == images[s_images_pos + 1]
                        target_size == target_sizes[s_second_pos + 1]
                    IN  /\ s_second_pos' = s_second_pos + 1
                        /\ IF Fails(image) THEN StreamRaise(1)
                           ELSE StreamYield(resized(image, target_size))
    /\ UNCHANGED <<s_ret, s_original_images>>
    /\ UNCHANGED <<inputVars, eagerVars, labelVars>>

\* Variant: the second element of a list is taken.
DenseCRFStream_select_second(data) == IF data.type = "list" THEN data.items[2] ELSE data

\* Variant: a tuple is unwrapped like a list.
DenseCRFStream_select_composite(data) ==
    IF data.type \in {"list", "tuple"} THEN data.items[1] ELSE data

\* if isinstance(data, list): X = data[0]  else: X = data
DenseCRFStream_select(data) == IF data.type = "list" THEN data.items[1] ELSE data

\* Variant: the loop ends one batch later.
DenseCRFStream_break_late(batch_id, steps) == batch_id = steps + 1

\* if batch_id == steps: break
DenseCRFStream_break(batch_id, steps) == batch_id = steps

Yielded(g, image) == [out |-> "yield", value |-> image,
                      g |-> [g EXCEPT !.pc = "suspended", !.yielded = Append(@, image)]]

Stopped(g) == [out |-> "stop", value |-> NoArg, g |-> [g EXCEPT !.pc = "done"]]

Raised(g) == [out |-> "raise", value |-> NoArg, g |-> [g EXCEPT !.pc = "raised"]]

\* The head of `for batch_id, data in enumerate(batch_gen)`, run until the
\* generator yields, stops or raises.
RECURSIVE DenseCRFStream_fetch(_, _)
DenseCRFStream_fetch(datagen, g) ==
    IF g.pulled = Len(datagen.batch_gen)
    THEN Stopped([g EXCEPT !.requests = @ + 1])
    ELSE LET X == DenseCRFStream_select(datagen.batch_gen[g.pulled + 1])
             g1 == [g EXCEPT !.pulled = @ + 1, !.requests = @ + 1, !.batch_id = g.pulled]
         IN  IF ~HasNumpy(X) THEN Raised(g1)
             ELSE IF Len(X.rows) > 0
             THEN Yielded([g1 EXCEPT !.X = X.rows, !.i = 1], X.rows[1])
             ELSE IF DenseCRFStream_break(g1.batch_id, datagen.steps) THEN Stopped(g1)
             ELSE DenseCRFStream_fetch(datagen, g1)

\* next() on the generator made by DenseCRFStream.get_original_images.
DenseCRFStream_get_original_images(datagen, g) ==
    IF g.pc \in {"done", "raised"} THEN [out |-> "stop", value |-> NoArg, g |-> g]
    ELSE IF g.pc = "suspended" /\ g.i < Len(g.X)
    THEN Yielded([g EXCEPT !.i = @ + 1], g.X[g.i + 1])
    ELSE IF g.pc = "suspended" /\ DenseCRFStream_break(g.batch_id, datagen.steps)
    THEN Stopped(g)
    ELSE DenseCRFStream_fetch(datagen, g)

DenseCRFStream_transform ==
    stage = "DenseCRF" /\ CreateGenerator("crf_images")

\* One next() on the generator made by DenseCRFStream._transform. Its first
\* run creates the aligner's generator before entering the zip loop.
DenseCRFStream_next ==
    /\ stage = "DenseCRF" /\ Running
    /\ s_requested' = s_requested + 1
    /\ LET g == IF s_pc = "created" THEN [NoGenerator EXCEPT !.pc = "created"]
                ELSE s_original_images
       IN  IF s_images_pos = Len(images)
           THEN StreamStop /\ s_original_images' = g /\ UNCHANGED s_images_pos
           ELSE LET image == images[s_images_pos + 1]
                    r == DenseCRFStream_get_original_images(raw_images_generator, g)
                IN  /\ s_images_pos' = s_images_pos + 1
                    /\ s_original_images' = r.g
                    /\ IF r.out = "stop" THEN StreamStop
                       ELSE IF r.out = "raise" THEN StreamRaise(0)
                       ELSE IF Fails(image) THEN StreamRaise(1)
                       ELSE StreamYield(dense_crf(r.value, image))
    /\ UNCHANGED <<s_ret, s_second_pos>>
    /\ UNCHANGED <<inputVars, eagerVars, labelVars>>

\* next() on a generator that has returned or raised: StopIteration, nothing runs.
Finished_next ==
    /\ s_pc \in {"done", "raised"}
    /\ s_requested < Len(s_delivered) + 1 + MaxExtraNext
    /\ s_requested' = s_requested + 1
    /\ UNCHANGED <<s_pc, s_ret, s_delivered, s_computed, s_images_pos, s_second_pos,
                   s_original_images>>
    /\ UNCHANGED <<inputVars, eagerVars, labelVars>>

\* -------------------------------------------------- label_multiclass_image
\* A mask is an h x w integer array: px maps (row, column) to the class value.
Shapes == {sh \in (1..MaxPixels) \X (1..MaxPixels) : sh[1] * sh[2] <= MaxPixels}

Pixels(h, w) == (1..h) \X (1..w)

Mask(h, w, f) == [h |-> h, w |-> w, px |-> f]

\* ndi.label's default structuring element: the four edge neighbours.
Adjacent(p, q) ==
    \/ p[1] = q[1] /\ (p[2] = q[2] + 1 \/ q[2] = p[2] + 1)
    \/ p[2] = q[2] /\ (p[1] = q[1] + 1 \/ q[1] = p[1] + 1)

\* The first pixel of P in scan order (row by row).
First(P) == CHOOSE p \in P : \A q \in P : p[1] < q[1] \/ (p[1] = q[1] /\ p[2] <= q[2])

\* The feature of P that contains S, grown neighbour by neighbour.
RECURSIVE Feature(_, _)
Feature(S, P) ==
    LET N == {q \in P \ S : \E p \in S : Adjacent(p, q)}
    IN  IF N = {} THEN S ELSE Feature(S \cup N, P)

\* Number the features of P from `id` on, in the scan order of their first pixel.
RECURSIVE NumberFeatures(_, _, _)
NumberFeatures(P, id, out) ==
    IF P = {} THEN out
    ELSE LET F == Feature({First(P)}, P)
         IN  NumberFeatures(P \ F, id + 1,
                            [p \in DOMAIN out |-> IF p \in F THEN id ELSE out[p]])

\* label(mask): ndi.label's labelled array; the feature count is dropped.
label(binary) ==
    NumberFeatures({p \in DOMAIN binary : binary[p]}, 1, [p \in DOMAIN binary |-> 0])

\* mask.max()
ArrayMax(m) == CHOOSE v \in {m.px[p] : p \in DOMAIN m.px} : \A p \in DOMAIN m.px : m.px[p] <= v

\* Variant: range(0, mask.max()), one plane short.
label_multiclass_image_short(m) ==
    [c \in 1..ArrayMax(m) |-> label([p \in DOMAIN m.px |-> m.px[p] = c - 1])]

\* One labelled plane per label_nr in range(0, mask.max() + 1), stacked: plane
\* c of the sequence is the channel of label_nr = c - 1.
label_multiclass_image(m) ==
    [c \in 1..(ArrayMax(m) + 1) |-> label([p \in DOMAIN m.px |-> m.px[p] = c - 1])]

MulticlassLabel_call ==
    /\ l_pc = "start"
    /\ labeled_image' = label_multiclass_image(mask)
    /\ l_pc' = "done"
    /\ UNCHANGED <<mask, inputVars, eagerVars, streamVars>>

InitLabel ==
    /\ \E sh \in Shapes : \E f \in [Pixels(sh[1], sh[2]) -> 0..MaxClass] :
           mask = Mask(sh[1], sh[2], f)
    /\ l_pc = "start" /\ labeled_image = <<>>
    /\ stage = "none" /\ images = <<>> /\ target_sizes = <<>>
    /\ raw_images_generator = NoDatagen
    /\ e_pc = "idle" /\ e_ret = {} /\ e_log = NoLog
    /\ s_pc = "idle" /\ s_ret = {} /\ s_delivered = <<>>
    /\ s_requested = 0 /\ s_computed = 0 /\ s_images_pos = 0 /\ s_second_pos = 0
    /\ s_original_images = NoGenerator

NextLabel == MulticlassLabel_call

SpecLabel == InitLabel /\ [][NextLabel]_vars

\* ------------------------------------------------------------ specification
\* Both stages of the pair are constructed and no call has been made yet.
Init ==
    /\ stage \in Stages
    /\ images = <<>> /\ target_sizes = <<>> /\ raw_images_generator = NoDatagen
    /\ e_pc = "idle" /\ e_ret = {} /\ e_log = NoLog
    /\ s_pc = "idle" /\ s_ret = {} /\ s_delivered = <<>>
    /\ s_requested = 0 /\ s_computed = 0 /\ s_images_pos = 0 /\ s_second_pos = 0
    /\ s_original_images = NoGenerator
    /\ mask = <<>> /\ l_pc = "unused" /\ labeled_image = <<>>

Next ==
    \/ MulticlassLabeler_transform
    \/ Resizer_transform
    \/ CategoryMapper_transform
    \/ MaskDilator_transform
    \/ DenseCRF_transform
    \/ MulticlassLabelerStream_transform
    \/ MulticlassLabelerStream_next
    \/ ResizerStream_transform
    \/ ResizerStream_next
    \/ CategoryMapperStream_transform
    \/ CategoryMapperStream_next
    \/ MaskDilatorStream_transform
    \/ MaskDilatorStream_next
    \/ DenseCRFStream_transform
    \/ DenseCRFStream_next
    \/ Finished_next

Spec == Init /\ [][Next]_vars

\* ------------------------------------------------- reference definitions
batch_gen == raw_images_generator.batch_gen
steps == raw_images_generator.steps

IsPrefix(s, t) == Len(s) <= Len(t) /\ \A i \in 1..Len(s) : s[i] = t[i]

\* Number of images a batch item carries.
BatchSize(data) ==
    IF data.type = "tensor" THEN Len(data.rows) ELSE Len(data.items[1].rows)

\* The raw images of the first k batches, batch by batch and row by row.
RECURSIVE Flattened(_)
Flattened(k) ==
    IF k = 0 THEN <<>>
    ELSE Flattened(k - 1) \o [i \in 1..BatchSize(batch_gen[k]) |-> <<"X", k - 1, i>>]

\* Batches with index 0..steps that the source has.
Reach == Min(Len(batch_gen), steps + 1)

\* ------------------------------------------------------------------ claims
\* C1: get_original_images, eager and streaming, never asks the source for a
\* batch with index above step_count (at most step_count + 1 requests), and
\* when it finishes without raising it has pulled exactly the batches
\* 0..step_count that the source has, even when the source holds more.
C1_BatchesUpToStepCount ==
    stage = "DenseCRF" =>
        /\ e_log.requests <= steps + 1
        /\ e_log.batches <= steps + 1
        /\ e_log.aligner = "returned" => e_log.batches = Reach
        /\ s_original_images.requests <= steps + 1
        /\ s_original_images.pulled <= steps + 1
        /\ s_original_images.pc = "done" => s_original_images.pulled = Reach

C1_Witness ==
    /\ stage = "DenseCRF"
    /\ Len(batch_gen) > steps + 1
    /\ e_log.aligner = "returned" /\ e_log.batches = steps + 1
    /\ s_original_images.pc = "done" /\ s_original_images.pulled = steps + 1

\* C2: with N batches and step_count = N-1, a get_original_images that runs to
\* its end yields exactly the images of all N batches, in batch order and in
\* row order within a batch; what the streaming variant has yielded so far is
\* always a prefix of that sequence.
C2_FlattenInOrder ==
    (stage = "DenseCRF" /\ steps = Len(batch_gen) - 1) =>
        /\ e_log.aligner = "returned" => e_log.originals = Flattened(Len(batch_gen))
        /\ IsPrefix(s_original_images.yielded, Flattened(Len(batch_gen)))
        /\ s_original_images.pc = "done" =>
               s_original_images.yielded = Flattened(Len(batch_gen))

C2_Witness ==
    /\ stage = "DenseCRF" /\ Len(batch_gen) = 2 /\ steps = 1
    /\ BatchSize(batch_gen[1]) >= 1 /\ BatchSize(batch_gen[2]) >= 1
    /\ e_log.aligner = "returned" /\ Len(e_log.originals) >= 2
    /\ s_original_images.pc = "done" /\ Len(s_original_images.yielded) >= 2

IsTuple(data) == data.type = "tuple"

\* Index (1-based) of the first tuple among the batches 0..steps, 0 if none.
FirstTuple ==
    LET T == {k \in 1..Reach : IsTuple(batch_gen[k])}
    IN  IF T = {} THEN 0 ELSE CHOOSE k \in T : \A m \in T : k <= m

\* C3 as stated: whatever batch items get_original_images pulls, bare array,
\* list or tuple, it does not raise and the images it extracts are those of the
\* item (bare array) or of its first element (list and tuple alike).
C3_TupleHandledLikeList ==
    stage = "DenseCRF" =>
        /\ e_log.aligner # "none" =>
               e_log.aligner = "returned" /\ e_log.originals = Flattened(e_log.batches)
        /\ s_original_images.pc # "raised"
        /\ s_original_images.pc = "done" =>
               s_original_images.yielded = Flattened(s_original_images.pulled)

\* C3 amended: a list batch item gives the images of its first element and any
\* other item is taken as the array itself; a tuple is therefore not unwrapped
\* and get_original_images raises at the first tuple among batches 0..steps,
\* having extracted exactly the images of the batches before it.
C3_ListUnwrappedTupleRaises ==
    stage = "DenseCRF" =>
        /\ e_log.aligner # "none" =>
               IF FirstTuple = 0
               THEN e_log.aligner = "returned" /\ e_log.originals = Flattened(Reach)
               ELSE /\ e_log.aligner = "raised"
                    /\ e_log.batches = FirstTuple
                    /\ e_log.originals = Flattened(FirstTuple - 1)
        /\ IsPrefix(s_original_images.yielded, Flattened(s_original_images.pulled))
        /\ s_original_images.pc = "raised" <=>
               (s_original_images.pulled > 0 /\ IsTuple(batch_gen[s_original_images.pulled]))
        /\ s_original_images.pc = "raised" =>
               /\ s_original_images.pulled = FirstTuple
               /\ s_original_images.yielded = Flattened(FirstTuple - 1)
        /\ s_original_images.pc = "done" =>
               /\ FirstTuple = 0
               /\ s_original_images.yielded = Flattened(Reach)

C3_Witness ==
    /\ stage = "DenseCRF" /\ Len(batch_gen) = 2 /\ steps >= 1
    /\ batch_gen[1].type = "list" /\ BatchSize(batch_gen[1]) = 2
    /\ IsTuple(batch_gen[2])
    /\ e_log.aligner = "raised" /\ e_log.originals = <<<<"X", 0, 1>>, <<"X", 0, 2>>>>
    /\ s_original_images.pc = "raised"
    /\ s_original_images.yielded = <<<<"X", 0, 1>>, <<"X", 0, 2>>>>

\* The list the eager transform() returned (defined when e_pc = "returned").
EagerList == (CHOOSE kv \in e_ret : TRUE)[2]

EagerNames == {kv[1] : kv \in e_ret}

C5_PairedByIndex ==
    stage = "DenseCRF" =>
        /\ e_pc = "returned" =>
               \A i \in 1..Len(EagerList) :
                   EagerList[i] = [op |-> "dense_crf", image |-> images[i].id,
                                   arg |-> e_log.originals[i]]
        /\ \A i \in 1..Len(s_delivered) :
               s_delivered[i] = [op |-> "dense_crf", image |-> images[i].id,
                                 arg |-> s_original_images.yielded[i]]

C5_Witness ==
    /\ stage = "DenseCRF"
    /\ e_pc = "returned" /\ Len(EagerList) = 3
    /\ Len(s_delivered) = 3
    /\ Len(batch_gen) = 2 /\ BatchSize(batch_gen[1]) = 1

\* C6: a streaming transform() only hands out the generator: nothing is
\* computed and nothing is pulled from any input.  Afterwards, whenever the
\* generator is suspended between two requests, the number of per-item
\* computations equals the number of requests (and of delivered elements), and
\* no input has been pulled further than the requests; a finished generator
\* computes nothing more, whatever is requested.
C6_ComputedOnDemand ==
    /\ s_pc \in {"idle", "created"} =>
           /\ s_computed = 0 /\ s_requested = 0 /\ s_delivered = <<>>
           /\ s_images_pos = 0 /\ s_second_pos = 0
           /\ s_original_images.pulled = 0 /\ s_original_images.requests = 0
    /\ s_pc = "suspended" =>
           /\ s_computed = s_requested
           /\ Len(s_delivered) = s_requested
           /\ s_images_pos = s_requested
    /\ s_computed <= s_requested
    /\ s_images_pos <= s_requested
    /\ s_second_pos <= s_requested
    /\ Len(s_original_images.yielded) <= s_requested

C6_Witness ==
    /\ s_pc = "suspended" /\ s_requested = 2 /\ s_computed = 2
    /\ Len(images) = 3 /\ stage = "DenseCRF"
    /\ Len(s_original_images.yielded) = 2

\* Position of the first item of `images` on which the per-item computation
\* fails, 0 if there is none.
FirstBad ==
    LET B == {i \in 1..Len(images) : Fails(images[i])}
    IN  IF B = {} THEN 0 ELSE CHOOSE i \in B : \A m \in B : i <= m

\* Items the stage's second input can pair with (the stage's own input length
\* for the one-input stages); for DenseCRF the raw images of batches 0..steps.
SecondLen ==
    IF stage = "Resizer" THEN Len(target_sizes)
    ELSE IF stage = "DenseCRF" THEN Len(Flattened(Reach))
    ELSE Len(images)

\* C7: let the per-item computation fail first at position j, with the second
\* input long enough to reach it (and, for DenseCRF, no batch making the
\* aligner raise).  The eager transform() then raises and returns no dict at
\* all.  The stream delivers exactly the results of positions 1..j-1, raises
\* at request j and not before, and never delivers a later element.
C7_FailureAtPositionJ ==
    (FirstBad > 0 /\ FirstBad <= SecondLen /\ FirstTuple = 0) =>
        /\ e_pc # "idle" => e_pc = "raised" /\ e_ret = {}
        /\ Len(s_delivered) < FirstBad
        /\ s_pc # "done"
        /\ s_requested < FirstBad => s_pc # "raised"
        /\ s_requested >= FirstBad =>
               /\ s_pc = "raised"
               /\ Len(s_delivered) = FirstBad - 1
               /\ s_computed = FirstBad
               /\ s_images_pos = FirstBad

C7_Witness ==
    /\ stage = "DenseCRF" /\ FirstBad = 3 /\ SecondLen >= 3 /\ FirstTuple = 0
    /\ e_pc = "raised" /\ e_ret = {} /\ e_log.computed = 3
    /\ s_pc = "raised" /\ Len(s_delivered) = 2 /\ s_requested > 3

\* Length of the second sequence the eager zip loop ran over.
EagerSecondLen ==
    IF stage = "Resizer" THEN Len(target_sizes)
    ELSE IF stage = "DenseCRF" THEN Len(e_log.originals)
    ELSE Len(images)

\* C8 as stated, taken on paired inputs of equal length (the callers' contract):
\* when the eager transform() returns, every element of every input it was
\* given has been consumed and every output has been computed.
C8_EveryInputConsumed ==
    (e_pc = "returned" /\ Len(images) = EagerSecondLen) =>
        /\ e_log.computed = Len(EagerList)
        /\ e_log.images = Len(images)
        /\ stage = "Resizer" => e_log.second = Len(target_sizes)
        /\ stage = "DenseCRF" =>
               e_log.batches = Len(batch_gen) /\ e_log.second = Len(e_log.originals)

\* C8 amended: when the eager transform() returns, every output element has
\* been computed, one per position up to the shorter of the paired inputs; the
\* inputs have been consumed up to that position (one image more when `images`
\* is the longer one), and the batch source up to batch index steps.  Nothing
\* beyond that is consumed; with paired inputs of equal length and a source of
\* at most steps + 1 batches that is every element.
C8_ConsumedUpToShorterInput ==
    e_pc = "returned" =>
        /\ Len(EagerList) = Min(Len(images), EagerSecondLen)
        /\ e_log.computed = Len(EagerList)
        /\ e_log.images = Min(Len(images), EagerSecondLen + 1)
        /\ stage \in {"Resizer", "DenseCRF"} =>
               e_log.second = Min(EagerSecondLen, Len(images))
        /\ stage = "DenseCRF" =>
               e_log.batches = Reach /\ e_log.originals = Flattened(Reach)
        /\ (Len(images) = EagerSecondLen /\ Len(batch_gen) <= steps + 1) =>
               /\ e_log.images = Len(images)
               /\ e_log.second = IF stage \in {"Resizer", "DenseCRF"}
                                 THEN EagerSecondLen ELSE 0
               /\ e_log.batches = Len(batch_gen)

C8_Witness ==
    /\ stage = "DenseCRF" /\ e_pc = "returned"
    /\ Len(batch_gen) = 2 /\ steps = 0 /\ e_log.batches = 1
    /\ Len(images) = 1 /\ Len(e_log.originals) = 2
    /\ e_log.computed = 1 /\ e_log.second = 1

\* The i-th element of the second input, and the output expected at position i.
SecondItem(i) ==
    IF stage = "Resizer" THEN target_sizes[i] ELSE Flattened(Reach)[i]

Expected(i) ==
    [op |-> IF stage = "Resizer" THEN "resize" ELSE "dense_crf",
     image |-> i, arg |-> SecondItem(i)]

Shorter == Min(Len(images), SecondLen)

\* C10: Resizer and DenseCRF, eager and streaming, on paired inputs of
\* different lengths (no item among the paired positions failing, no batch
\* making the aligner raise): no error is raised and the output is exactly the
\* results of the first min(length, length) positions; the surplus is dropped.
C10_TruncatesToShorter ==
    (/\ stage \in {"Resizer", "DenseCRF"}
     /\ Len(images) # SecondLen
     /\ FirstTuple = 0
     /\ (FirstBad = 0 \/ FirstBad > Shorter)) =>
        /\ e_pc # "raised" /\ s_pc # "raised"
        /\ e_pc = "returned" => EagerList = [i \in 1..Shorter |-> Expected(i)]
        /\ IsPrefix(s_delivered, [i \in 1..Shorter |-> Expected(i)])
        /\ s_pc = "done" => Len(s_delivered) = Shorter

C10_Witness ==
    /\ stage = "Resizer" /\ Len(images) = 3 /\ Len(target_sizes) = 2
    /\ FirstBad = 3
    /\ e_pc = "returned" /\ Len(EagerList) = 2
    /\ s_pc = "done" /\ Len(s_delivered) = 2

\* Pixels of P joined to p by a chain of at most n steps between edge
\* neighbours that stays inside P.
RECURSIVE Within(_, _, _)
Within(p, P, n) ==
    IF n = 0 THEN {p}
    ELSE LET W == Within(p, P, n - 1)
         IN  W \cup {q \in P : \E r \in W : Adjacent(r, q)}

SameRegion(p, q, P) == q \in Within(p, P, Cardinality(P))

\* C9: for a mask with maximum value K >= 0, label_multiclass_image returns
\* K + 1 channels of the mask's spatial shape; in channel k the nonzero pixels
\* are exactly those where the mask equals k, the IDs are positive, and two
\* such pixels carry the same ID exactly when they lie in the same connected
\* region (edge neighbours, ndi.label's default) of (mask == k).
C9_ChannelsAreComponents ==
    l_pc = "done" =>
        LET K == ArrayMax(mask)
        IN  /\ K >= 0
            /\ Len(labeled_image) = K + 1
            /\ \A k \in 0..K :
                   LET channel == labeled_image[k + 1]
                       P == {p \in Pixels(mask.h, mask.w) : mask.px[p] = k}
                   IN  /\ DOMAIN channel = Pixels(mask.h, mask.w)
                       /\ \A p \in DOMAIN channel : channel[p] >= 0
                       /\ {p \in DOMAIN channel : channel[p] # 0} = P
                       /\ \A p \in P : \A q \in P :
                              (channel[p] = channel[q]) <=> SameRegion(p, q, P)

C9_Witness ==
    /\ l_pc = "done" /\ mask.h = 2 /\ mask.w = 3
    /\ Len(labeled_image) = 3
    /\ \E p \in DOMAIN mask.px : \E q \in DOMAIN mask.px :
           /\ mask.px[p] = 2 /\ mask.px[q] = 2
           /\ labeled_image[3][p] = 1 /\ labeled_image[3][q] = 2
    /\ \E p \in DOMAIN mask.px : \E q \in DOMAIN mask.px :
           /\ p # q /\ ~Adjacent(p, q)
           /\ labeled_image[1][p] = 1 /\ labeled_image[1][q] = 1
=============================================================================
